---- MODULE Spec2Model ----
(***************************************************************************)
(* CapturePowermetrics (src/src/python_powermetrics.py): a session in the  *)
(* caller's process, a worker process supervising the powermetrics         *)
(* sampler, and the primitives between them: two events, a pipe carrying   *)
(* the acknowledgment and a multiprocessing queue carrying kept lines.     *)
(*                                                                         *)
(* A sampler line is a record [kind, val]: kind is the prefix the code     *)
(* tests with startswith ("Boundary" for "*** Sampled system activity (",  *)
(* "CPU", "GPU", "ANE" for "<rail> Power", "Other" for anything else), val *)
(* is the number its text carries (epoch seconds of a boundary, mW of a    *)
(* power line); a negative val stands for a text that strptime or float    *)
(* rejects.  In Spec the sampler's n-th line carries the number n: its     *)
(* clock in a boundary, its reading in a power line.  Energies are         *)
(* integers in units of 0.5 mJ, so that the division by 2.0 of the         *)
(* trapezoid rule and the factor 1e-3 need no fractions:                   *)
(* joules = energy * 5e-4.                                                 *)
(***************************************************************************)
EXTENDS Integers, Sequences, FiniteSets, TLC

\* ---------------------------------------------------------------- bounds
\* lines the sampler writes in one run of the model
MaxLines == 5
\* records the queue's pipe holds before a write to it blocks
PipeCap == 3
\* drained records of any kind and order whose finalization is checked
MaxDrained == 4
\* complete reporting cycles drained whose finalization is checked
MaxSamples == 2
\* lines the sampler writes to its standard output in the threaded capture
MaxOut == 2
\* lines the sampler writes to its standard error in the threaded capture
MaxErr == 2

VARIABLES
  isRoot,              \* os.geteuid() == 0
  hasTool,             \* the powermetrics executable can be found
  spc,                 \* where the session (caller) is in __enter__/__exit__
  wpc,                 \* where the worker process is in _worker
  sampler,             \* the powermetrics process
  termination_event,
  ane_seen_event,
  ane_power_detected,  \* local of _worker
  qbuffer,             \* data_queue: records put, not yet written to its pipe
  qpipe,               \* data_queue: records in its pipe, not yet got
  conn,                \* messages sent on child_conn, not yet received
  collected_data,
  finished,
  cpu_energy_J,
  gpu_energy_J,
  ane_energy_J,
  sample_times_s,
  cpu_power_mW,
  gpu_power_mW,
  ane_power_mW,
  readLog,             \* history: every line readline() has returned
  putLog,              \* history: every record put on data_queue
  ackSent,             \* history: number of conn.send("Done")
  ackReceived,         \* history: parent_conn.recv() has returned
  \* the threaded capture of src/capture_powermetrics.py
  tpc,                 \* where the main thread is in __enter__/__exit__
  opc,                 \* where the stdout thread is in _capture_stdout
  epc,                 \* where the stderr thread is in _capture_stderr
  process,             \* the powermetrics shell process
  stdout_pipe,         \* lines written to process.stdout, not yet read
  stderr_pipe,         \* number of lines on process.stderr, not yet read
  decoded_line,        \* the line the stdout thread has in hand
  ok,
  killed,              \* os.kill(self.pid, SIGKILL) has been delivered
  sample_times,
  cpu_power,
  gpu_power,
  ane_power,
  printed,             \* the energies __exit__ has printed
  nOut,                \* lines written to standard output so far
  nErr,                \* lines written to standard error so far
  stdoutLog            \* history: every line the stdout thread has read

vars == <<isRoot, hasTool, spc, wpc, sampler, termination_event, ane_seen_event,
          ane_power_detected, qbuffer, qpipe, conn, collected_data, finished,
          cpu_energy_J, gpu_energy_J, ane_energy_J, sample_times_s,
          cpu_power_mW, gpu_power_mW, ane_power_mW, readLog, putLog, ackSent,
          ackReceived, tpc, opc, epc, process, stdout_pipe, stderr_pipe,
          decoded_line,
          ok, killed, sample_times, cpu_power, gpu_power, ane_power, printed,
          nOut, nErr, stdoutLog>>

envVars == <<isRoot, hasTool>>
threadVars == <<tpc, opc, epc, process, stdout_pipe, stderr_pipe, decoded_line, ok,
                killed, sample_times, cpu_power, gpu_power, ane_power, printed,
                nOut, nErr, stdoutLog>>
procVars == <<spc, wpc, sampler, termination_event, ane_seen_event,
              ane_power_detected, qbuffer, qpipe, conn, collected_data,
              finished, cpu_energy_J, gpu_energy_J, ane_energy_J,
              sample_times_s, cpu_power_mW, gpu_power_mW, ane_power_mW,
              readLog, putLog, ackSent, ackReceived>>
energyVars == <<cpu_energy_J, gpu_energy_J, ane_energy_J>>
seriesVars == <<sample_times_s, cpu_power_mW, gpu_power_mW, ane_power_mW>>
resultVars == <<finished, energyVars, seriesVars>>

\* ----------------------------------------------------------------- lines
Line(k, v) == [kind |-> k, val |-> v]

\* f"Error: {e}", the record the worker puts when reading raises
ErrorRecord == Line("Error", 0)

\* the lines the sampler may write as its n-th line: a boundary stamped with
\* its clock, a reading of one of the rails, or a line of another report
SamplerLines(n) ==
  {Line(k, n) : k \in {"Boundary", "CPU", "GPU", "ANE"}} \cup {Line("Other", 0)}

\* line.startswith(<the prefix of kind k>)
startswith(line, k) == line.kind = k

_keep_line(line) ==
  IF startswith(line, "Boundary") THEN TRUE
  ELSE IF startswith(line, "CPU") THEN TRUE
  ELSE IF startswith(line, "GPU") THEN TRUE
  ELSE IF startswith(line, "ANE") THEN TRUE
  ELSE FALSE

\* ------------------------------------------------- parsing (__exit__ 58-72)
\* the series __exit__ builds from the drained records, in order: a record
\* that starts with none of the four prefixes is skipped
EmptySeries ==
  [times |-> <<>>, cpu |-> <<>>, gpu |-> <<>>, ane |-> <<>>, err |-> FALSE]

\* datetime.strptime(...) / float(...) raise on a text they cannot read
Unparseable(line) == line.val < 0

\* one turn of the parse loop; err: the turn raised, nothing was appended
ParseLine(st, line) ==
  IF startswith(line, "Boundary")
    THEN IF Unparseable(line) THEN [st EXCEPT !.err = TRUE]
         ELSE [st EXCEPT !.times = Append(@, line.val)]
  ELSE IF startswith(line, "CPU")
    THEN IF Unparseable(line) THEN [st EXCEPT !.err = TRUE]
         ELSE [st EXCEPT !.cpu = Append(@, line.val)]
  ELSE IF startswith(line, "GPU")
    THEN IF Unparseable(line) THEN [st EXCEPT !.err = TRUE]
         ELSE [st EXCEPT !.gpu = Append(@, line.val)]
  ELSE IF startswith(line, "ANE")
    THEN IF Unparseable(line) THEN [st EXCEPT !.err = TRUE]
         ELSE [st EXCEPT !.ane = Append(@, line.val)]
  ELSE st

\* the parse loop: it ends at the first turn that raises
RECURSIVE ParseFrom(_, _)
ParseFrom(st, lines) ==
  IF lines = <<>> \/ st.err THEN st
  ELSE ParseFrom(ParseLine(st, Head(lines)), Tail(lines))

Parse(lines) == ParseFrom(EmptySeries, lines)

\* --------------------------------------- integration (_compute_energy)
\* numpy.diff(x) and y[1:] + y[:-1]: one element less than the argument,
\* none for an empty argument
Diff(x) == [i \in 1..(IF Len(x) = 0 THEN 0 ELSE Len(x) - 1) |-> x[i + 1] - x[i]]
PairSum(y) == [i \in 1..(IF Len(y) = 0 THEN 0 ELSE Len(y) - 1) |-> y[i + 1] + y[i]]

RECURSIVE SumSeq(_)
SumSeq(s) == IF s = <<>> THEN 0 ELSE Head(s) + SumSeq(Tail(s))

\* faulty variant of trapz: the left-endpoint sum instead of the trapezoids
trapz_LeftSum(y, x) ==
  IF Len(x) = Len(y)
    THEN [err |-> FALSE,
          v |-> SumSeq([i \in 1..(IF Len(x) = 0 THEN 0 ELSE Len(x) - 1) |->
                          (x[i + 1] - x[i]) * 2 * y[i]])]
    ELSE [err |-> TRUE, v |-> 0]

\* numpy.trapz(y, x), doubled: (d * (y[1:] + y[:-1])).sum().  The product is
\* numpy's broadcast one: element by element for equal lengths, a single
\* element against every element of the other, and a ValueError otherwise
trapz(y, x) ==
  LET d == Diff(x)
      s == PairSum(y)
  IN  IF Len(d) = Len(s)
        THEN [err |-> FALSE, v |-> SumSeq([i \in 1..Len(d) |-> d[i] * s[i]])]
      ELSE IF Len(d) = 1
        THEN [err |-> FALSE, v |-> SumSeq([i \in 1..Len(s) |-> d[1] * s[i]])]
      ELSE IF Len(s) = 1
        THEN [err |-> FALSE, v |-> SumSeq([i \in 1..Len(d) |-> d[i] * s[1]])]
      ELSE [err |-> TRUE, v |-> 0]

\* the three integrals of _compute_energy, taken before any field is
\* assigned: one that raises leaves every energy field as it was
ComputeEnergy(series) ==
  LET c == trapz(series.cpu, series.times)
      g == trapz(series.gpu, series.times)
      a == trapz(series.ane, series.times)
  IN  [err |-> c.err \/ g.err \/ a.err, cpu |-> c.v, gpu |-> g.v, ane |-> a.v]

\* ------------------------------------------------------------------ Init
\* __init__ of the threaded capture: no process, no threads, ok False,
\* empty series
ThreadsConstructed ==
  /\ tpc = "init"
  /\ opc = "none"
  /\ epc = "none"
  /\ process = "none"
  /\ stdout_pipe = <<>>
  /\ stderr_pipe = 0
  /\ decoded_line = Line("Other", 0)
  /\ ok = FALSE
  /\ killed = FALSE
  /\ sample_times = <<>>
  /\ cpu_power = <<>>
  /\ gpu_power = <<>>
  /\ ane_power = <<>>
  /\ printed = <<>>
  /\ nOut = 0
  /\ nErr = 0
  /\ stdoutLog = <<>>

\* __init__: nothing started, both events clear, queue and pipe empty,
\* energies 0.0; the privilege and the executable are the environment's
Init ==
  /\ isRoot \in BOOLEAN
  /\ hasTool \in BOOLEAN
  /\ spc = "init"
  /\ wpc = "none"
  /\ sampler = "none"
  /\ termination_event = FALSE
  /\ ane_seen_event = FALSE
  /\ ane_power_detected = FALSE
  /\ qbuffer = <<>>
  /\ qpipe = <<>>
  /\ conn = <<>>
  /\ collected_data = <<>>
  /\ finished = FALSE
  /\ cpu_energy_J = 0
  /\ gpu_energy_J = 0
  /\ ane_energy_J = 0
  /\ sample_times_s = <<>>
  /\ cpu_power_mW = <<>>
  /\ gpu_power_mW = <<>>
  /\ ane_power_mW = <<>>
  /\ readLog = <<>>
  /\ putLog = <<>>
  /\ ackSent = 0
  /\ ackReceived = FALSE
  /\ ThreadsConstructed

\* ---------------------------------------------------------------- worker
\* subprocess.Popen(["powermetrics", ...]): raises outside the try when the
\* executable is missing, which ends the worker process
WorkerPopen ==
  /\ wpc = "popen"
  /\ IF hasTool
       THEN /\ sampler' = "running"
            /\ wpc' = "loop"
       ELSE /\ sampler' = sampler
            /\ wpc' = "crashed"
  /\ UNCHANGED <<envVars, threadVars, spc, termination_event, ane_seen_event,
                 ane_power_detected, qbuffer, qpipe, conn, collected_data,
                 resultVars, readLog, putLog, ackSent, ackReceived>>

\* while not termination_event.is_set()
WorkerLoop ==
  /\ wpc = "loop"
  /\ wpc' = IF termination_event THEN "terminate" ELSE "read"
  /\ UNCHANGED <<envVars, threadVars, spc, sampler, termination_event, ane_seen_event,
                 ane_power_detected, qbuffer, qpipe, conn, collected_data,
                 resultVars, readLog, putLog, ackSent, ackReceived>>

\* faulty variants of PutsLine: the gate dropped; the triggering line
\* forwarded too
PutsLine_NoGate(line, detected) == _keep_line(line)
PutsLine_WithTrigger(line, detected) ==
  _keep_line(line) /\ (detected \/ startswith(line, "ANE"))

\* lines 106-108: the line is put on data_queue
PutsLine(line, detected) == _keep_line(line) /\ detected

\* faulty variant of RaisesReady: any kept line raises the readiness event
RaisesReady_AnyKept(line, detected) == _keep_line(line) /\ ~detected

\* lines 106-111: the line raises the readiness event
RaisesReady(line, detected) ==
  _keep_line(line) /\ ~detected /\ startswith(line, "ANE")

\* proc.stdout.readline() returns a line (it blocks until the sampler has
\* written one), and the body of the loop handles it
WorkerReadLine(line) ==
  /\ wpc = "read"
  /\ sampler = "running"
  /\ Len(readLog) < MaxLines
  /\ readLog' = Append(readLog, line)
  /\ IF PutsLine(line, ane_power_detected)
       THEN /\ qbuffer' = Append(qbuffer, line)
            /\ putLog' = Append(putLog, line)
       ELSE UNCHANGED <<qbuffer, putLog>>
  /\ IF RaisesReady(line, ane_power_detected)
       THEN /\ ane_power_detected' = TRUE
            /\ ane_seen_event' = TRUE
       ELSE UNCHANGED <<ane_power_detected, ane_seen_event>>
  /\ wpc' = "loop"
  /\ UNCHANGED <<envVars, threadVars, spc, sampler, termination_event, qpipe, conn,
                 collected_data, resultVars, ackSent, ackReceived>>

\* readline() returns "" at the end of the stream (the sampler has exited):
\* time.sleep(0.1), then the loop's test again
WorkerReadEOF ==
  /\ wpc = "read"
  /\ sampler = "exited"
  /\ wpc' = "loop"
  /\ UNCHANGED <<envVars, threadVars, spc, sampler, termination_event, ane_seen_event,
                 ane_power_detected, qbuffer, qpipe, conn, collected_data,
                 resultVars, readLog, putLog, ackSent, ackReceived>>

\* readline() raises: except Exception puts the sentinel, then finally
WorkerReadError ==
  /\ wpc = "read"
  /\ qbuffer' = Append(qbuffer, ErrorRecord)
  /\ putLog' = Append(putLog, ErrorRecord)
  /\ wpc' = "terminate"
  /\ UNCHANGED <<envVars, threadVars, spc, sampler, termination_event, ane_seen_event,
                 ane_power_detected, qpipe, conn, collected_data, resultVars,
                 readLog, ackSent, ackReceived>>

\* finally: proc.terminate() (no signal is sent to a sampler that has exited)
WorkerTerminate ==
  /\ wpc = "terminate"
  /\ sampler' = IF sampler = "running" THEN "signalled" ELSE sampler
  /\ wpc' = "wait"
  /\ UNCHANGED <<envVars, threadVars, spc, termination_event, ane_seen_event,
                 ane_power_detected, qbuffer, qpipe, conn, collected_data,
                 resultVars, readLog, putLog, ackSent, ackReceived>>

\* faulty variant of WorkerWait: the worker goes on without waiting for the
\* sampler to exit
WorkerWait_NoWait ==
  /\ wpc = "wait"
  /\ wpc' = "send"
  /\ UNCHANGED <<envVars, threadVars, spc, sampler, termination_event,
                 ane_seen_event, ane_power_detected, qbuffer, qpipe, conn,
                 collected_data, resultVars, readLog, putLog, ackSent,
                 ackReceived>>

\* the end of "with subprocess.Popen(...) as proc": Popen.__exit__ waits for
\* the sampler to exit
WorkerWait ==
  /\ wpc = "wait"
  /\ sampler = "exited"
  /\ wpc' = "send"
  /\ UNCHANGED <<envVars, threadVars, spc, sampler, termination_event, ane_seen_event,
                 ane_power_detected, qbuffer, qpipe, conn, collected_data,
                 resultVars, readLog, putLog, ackSent, ackReceived>>

\* faulty variant of WorkerSend: the acknowledgment sent from inside the
\* read loop
WorkerSend_InLoop ==
  /\ wpc = "send"
  /\ conn' = Append(conn, "Done")
  /\ ackSent' = ackSent + 1
  /\ wpc' = "loop"
  /\ UNCHANGED <<envVars, threadVars, spc, sampler, termination_event, ane_seen_event,
                 ane_power_detected, qbuffer, qpipe, collected_data,
                 resultVars, readLog, putLog, ackReceived>>

\* conn.send("Done"); conn.close(); _worker returns
WorkerSend ==
  /\ wpc = "send"
  /\ conn' = Append(conn, "Done")
  /\ ackSent' = ackSent + 1
  /\ wpc' = "exiting"
  /\ UNCHANGED <<envVars, threadVars, spc, sampler, termination_event, ane_seen_event,
                 ane_power_detected, qbuffer, qpipe, collected_data,
                 resultVars, readLog, putLog, ackReceived>>

\* the worker process exits: multiprocessing joins the queue's feeder thread
\* first, so the process ends only once every record put is in the pipe
WorkerExit ==
  /\ wpc = "exiting"
  /\ qbuffer = <<>>
  /\ wpc' = "exited"
  /\ UNCHANGED <<envVars, threadVars, spc, sampler, termination_event, ane_seen_event,
                 ane_power_detected, qbuffer, qpipe, conn, collected_data,
                 resultVars, readLog, putLog, ackSent, ackReceived>>

\* data_queue's feeder thread (in the worker process) writes the oldest
\* buffered record to the queue's pipe; the write blocks while the pipe is full
QueueFeed ==
  /\ qbuffer # <<>>
  /\ Len(qpipe) < PipeCap
  /\ qpipe' = Append(qpipe, Head(qbuffer))
  /\ qbuffer' = Tail(qbuffer)
  /\ UNCHANGED <<envVars, threadVars, spc, wpc, sampler, termination_event, ane_seen_event,
                 ane_power_detected, conn, collected_data, resultVars, readLog,
                 putLog, ackSent, ackReceived>>

\* --------------------------------------------------------------- sampler
\* powermetrics exits of its own accord
SamplerExit ==
  /\ sampler = "running"
  /\ sampler' = "exited"
  /\ UNCHANGED <<envVars, threadVars, spc, wpc, termination_event, ane_seen_event,
                 ane_power_detected, qbuffer, qpipe, conn, collected_data,
                 resultVars, readLog, putLog, ackSent, ackReceived>>

\* powermetrics exits on the termination request
SamplerDie ==
  /\ sampler = "signalled"
  /\ sampler' = "exited"
  /\ UNCHANGED <<envVars, threadVars, spc, wpc, termination_event, ane_seen_event,
                 ane_power_detected, qbuffer, qpipe, conn, collected_data,
                 resultVars, readLog, putLog, ackSent, ackReceived>>

\* --------------------------------------------------------------- session
\* __enter__: the assertion, then process.start()
SessionEnter ==
  /\ spc = "init"
  /\ IF isRoot
       THEN /\ wpc' = "popen"
            /\ spc' = "enter_wait"
       ELSE /\ wpc' = wpc
            /\ spc' = "raised"
  /\ UNCHANGED <<envVars, threadVars, sampler, termination_event, ane_seen_event,
                 ane_power_detected, qbuffer, qpipe, conn, collected_data,
                 resultVars, readLog, putLog, ackSent, ackReceived>>

\* __enter__: ane_seen_event.wait() returns, and __enter__ with it
SessionReady ==
  /\ spc = "enter_wait"
  /\ ane_seen_event
  /\ spc' = "capturing"
  /\ UNCHANGED <<envVars, threadVars, wpc, sampler, termination_event, ane_seen_event,
                 ane_power_detected, qbuffer, qpipe, conn, collected_data,
                 resultVars, readLog, putLog, ackSent, ackReceived>>

\* the with block ends; __exit__: termination_event.set()
SessionExit ==
  /\ spc = "capturing"
  /\ termination_event' = TRUE
  /\ spc' = "exit_recv"
  /\ UNCHANGED <<envVars, threadVars, wpc, sampler, ane_seen_event, ane_power_detected,
                 qbuffer, qpipe, conn, collected_data, resultVars, readLog,
                 putLog, ackSent, ackReceived>>

\* faulty variant of SessionRecv: __exit__ without the parent_conn.recv()
\* call
SessionRecv_NoWait ==
  /\ spc = "exit_recv"
  /\ spc' = "exit_join"
  /\ UNCHANGED <<envVars, threadVars, wpc, sampler, termination_event, ane_seen_event,
                 ane_power_detected, qbuffer, qpipe, conn, collected_data,
                 resultVars, readLog, putLog, ackSent, ackReceived>>

\* __exit__: parent_conn.recv() returns the worker's message
SessionRecv ==
  /\ spc = "exit_recv"
  /\ conn # <<>>
  /\ conn' = Tail(conn)
  /\ ackReceived' = TRUE
  /\ spc' = "exit_join"
  /\ UNCHANGED <<envVars, threadVars, wpc, sampler, termination_event, ane_seen_event,
                 ane_power_detected, qbuffer, qpipe, collected_data,
                 resultVars, readLog, putLog, ackSent>>

\* __exit__: process.join() returns once the worker process has ended
SessionJoin ==
  /\ spc = "exit_join"
  /\ wpc \in {"exited", "crashed"}
  /\ spc' = "exit_drain"
  /\ UNCHANGED <<envVars, threadVars, wpc, sampler, termination_event, ane_seen_event,
                 ane_power_detected, qbuffer, qpipe, conn, collected_data,
                 resultVars, readLog, putLog, ackSent, ackReceived>>

\* faulty variant of SessionDrainGet: the record got is put in front of the
\* others
SessionDrainGet_Front ==
  /\ spc = "exit_drain"
  /\ qpipe # <<>>
  /\ collected_data' = <<Head(qpipe)>> \o collected_data
  /\ qpipe' = Tail(qpipe)
  /\ UNCHANGED <<envVars, threadVars, spc, wpc, sampler, termination_event, ane_seen_event,
                 ane_power_detected, qbuffer, conn, resultVars, readLog, putLog,
                 ackSent, ackReceived>>

\* __exit__: one turn of the drain loop, data_queue.get_nowait()
SessionDrainGet ==
  /\ spc = "exit_drain"
  /\ qpipe # <<>>
  /\ collected_data' = Append(collected_data, Head(qpipe))
  /\ qpipe' = Tail(qpipe)
  /\ UNCHANGED <<envVars, threadVars, spc, wpc, sampler, termination_event, ane_seen_event,
                 ane_power_detected, qbuffer, conn, resultVars, readLog, putLog,
                 ackSent, ackReceived>>

\* __exit__: data_queue.empty() ends the drain loop; finished = True; the
\* parse loop fills the four series and may raise out of __exit__; then
\* _compute_energy either assigns the three energies or raises out of it
SessionFinalize ==
  /\ spc = "exit_drain"
  /\ qpipe = <<>>
  /\ finished' = TRUE
  /\ LET series == Parse(collected_data)
         e == ComputeEnergy(series)
     IN  /\ sample_times_s' = series.times
         /\ cpu_power_mW' = series.cpu
         /\ gpu_power_mW' = series.gpu
         /\ ane_power_mW' = series.ane
         /\ IF series.err \/ e.err
              THEN /\ spc' = "raised"
                   /\ UNCHANGED energyVars
              ELSE /\ spc' = "done"
                   /\ cpu_energy_J' = e.cpu
                   /\ gpu_energy_J' = e.gpu
                   /\ ane_energy_J' = e.ane
  /\ UNCHANGED <<envVars, threadVars, wpc, sampler, termination_event, ane_seen_event,
                 ane_power_detected, qbuffer, qpipe, conn, collected_data,
                 readLog, putLog, ackSent, ackReceived>>

\* ------------------------------------------------------------------ Next
Next ==
  \/ SessionEnter
  \/ SessionReady
  \/ SessionExit
  \/ SessionRecv
  \/ SessionJoin
  \/ SessionDrainGet
  \/ SessionFinalize
  \/ WorkerPopen
  \/ WorkerLoop
  \/ \E line \in SamplerLines(Len(readLog) + 1) : WorkerReadLine(line)
  \/ WorkerReadEOF
  \/ WorkerReadError
  \/ WorkerTerminate
  \/ WorkerWait
  \/ WorkerSend
  \/ WorkerExit
  \/ QueueFeed
  \/ SamplerExit
  \/ SamplerDie

Spec == Init /\ [][Next]_vars

\* __str__: "hasn't started" while process is None, "hasn't finished" while
\* finished is false, the three energy fields otherwise
__str__ ==
  IF wpc = "none"
    THEN [summary |-> "hasn't started", cpu |-> 0, gpu |-> 0, ane |-> 0]
  ELSE IF ~finished
    THEN [summary |-> "hasn't finished", cpu |-> 0, gpu |-> 0, ane |-> 0]
  ELSE [summary |-> "energies", cpu |-> cpu_energy_J, gpu |-> gpu_energy_J,
        ane |-> ane_energy_J]

\* capture.cpu_energy_J, .gpu_energy_J, .ane_energy_J read by the caller:
\* plain attributes set in __init__, so a read raises nothing in any state
\* and gives the values the fields hold
EnergyFields ==
  [raises |-> FALSE, cpu |-> cpu_energy_J, gpu |-> gpu_energy_J,
   ane |-> ane_energy_J]

\* ------------------------------------------- finalization on its own
\* What __exit__ does from the drain on, for drained records of any content:
\* the worker has ended and everything it put is in the queue's pipe.
TimeVals == {1, 3}
PowerVals == {1, 2}

\* the records a drain of any content is made of: boundaries with a readable
\* or an unreadable timestamp, a reading of each rail, the error sentinel
DrainAlphabet ==
  {Line("Boundary", t) : t \in TimeVals \cup {-1}}
    \cup {Line(k, 2) : k \in {"CPU", "GPU", "ANE"}}
    \cup {ErrorRecord}

\* one complete reporting cycle: boundary, CPU, GPU, ANE
OneCycle ==
  {<<Line("Boundary", t), Line("CPU", c), Line("GPU", g), Line("ANE", a)>> :
     t \in TimeVals, c \in PowerVals, g \in PowerVals, a \in PowerVals}

RECURSIVE Cycles(_)
Cycles(k) ==
  IF k = 0 THEN {<<>>}
  ELSE {cs \o c : cs \in Cycles(k - 1), c \in OneCycle}

DrainInputs ==
  UNION {[1..n -> DrainAlphabet] : n \in 0..MaxDrained}
    \cup UNION {Cycles(k) : k \in 0..MaxSamples}

InitFinalize ==
  /\ isRoot = TRUE
  /\ hasTool = TRUE
  /\ spc = "exit_drain"
  /\ wpc = "exited"
  /\ sampler = "exited"
  /\ termination_event = TRUE
  /\ ane_seen_event = TRUE
  /\ ane_power_detected = TRUE
  /\ qbuffer = <<>>
  /\ qpipe \in DrainInputs
  /\ conn = <<>>
  /\ collected_data = <<>>
  /\ finished = FALSE
  /\ cpu_energy_J = 0
  /\ gpu_energy_J = 0
  /\ ane_energy_J = 0
  /\ sample_times_s = <<>>
  /\ cpu_power_mW = <<>>
  /\ gpu_power_mW = <<>>
  /\ ane_power_mW = <<>>
  /\ readLog = <<Line("ANE", 1)>> \o SelectSeq(qpipe, LAMBDA r : r # ErrorRecord)
  /\ putLog = qpipe
  /\ ackSent = 1
  /\ ackReceived = TRUE
  /\ ThreadsConstructed

NextFinalize ==
  \/ SessionDrainGet
  \/ SessionFinalize

SpecFinalize == InitFinalize /\ [][NextFinalize]_vars

\* ------------------------------------------- threaded capture: the sampler
\* powermetrics writes a line to its standard output
ProcessWritesStdout(l) ==
  /\ ~killed
  /\ process = "running"
  /\ nOut < MaxOut
  /\ stdout_pipe' = Append(stdout_pipe, l)
  /\ nOut' = nOut + 1
  /\ UNCHANGED <<envVars, procVars, tpc, opc, epc, process, stderr_pipe,
                 decoded_line, ok, killed, sample_times, cpu_power, gpu_power,
                 ane_power, printed, nErr, stdoutLog>>

\* powermetrics, or the shell that should start it, writes a line to its
\* standard error
ProcessWritesStderr ==
  /\ ~killed
  /\ process = "running"
  /\ nErr < MaxErr
  /\ stderr_pipe' = stderr_pipe + 1
  /\ nErr' = nErr + 1
  /\ UNCHANGED <<envVars, procVars, tpc, opc, epc, process, stdout_pipe,
                 decoded_line, ok, killed, sample_times, cpu_power, gpu_power,
                 ane_power, printed, nOut, stdoutLog>>

\* the process ends, of itself or on the SIGTERM of process.terminate()
ProcessExits ==
  /\ ~killed
  /\ process \in {"running", "signalled"}
  /\ process' = "exited"
  /\ UNCHANGED <<envVars, procVars, tpc, opc, epc, stdout_pipe, stderr_pipe,
                 decoded_line, ok, killed, sample_times, cpu_power, gpu_power,
                 ane_power, printed, nOut, nErr, stdoutLog>>

\* ------------------------------------------- threaded capture: main thread
\* __enter__: Popen, then both reader threads are started
ThreadsEnter ==
  /\ ~killed
  /\ tpc = "init"
  /\ tpc' = "capturing"
  /\ process' = "running"
  /\ opc' = "read"
  /\ epc' = "read"
  /\ UNCHANGED <<envVars, procVars, stdout_pipe, stderr_pipe, decoded_line,
                 ok, killed, sample_times, cpu_power, gpu_power, ane_power,
                 printed, nOut, nErr, stdoutLog>>

\* __exit__: process.terminate()
ThreadsTerminate ==
  /\ ~killed
  /\ tpc = "capturing"
  /\ tpc' = "wait"
  /\ process' = IF process = "running" THEN "signalled" ELSE process
  /\ UNCHANGED <<envVars, procVars, opc, epc, stdout_pipe, stderr_pipe,
                 decoded_line, ok, killed, sample_times, cpu_power, gpu_power,
                 ane_power, printed, nOut, nErr, stdoutLog>>

\* __exit__: process.wait()
ThreadsWait ==
  /\ ~killed
  /\ tpc = "wait"
  /\ process = "exited"
  /\ tpc' = "join"
  /\ UNCHANGED <<envVars, procVars, opc, epc, process, stdout_pipe,
                 stderr_pipe, decoded_line, ok, killed, sample_times,
                 cpu_power, gpu_power, ane_power, printed, nOut, nErr,
                 stdoutLog>>

\* __exit__: both joins, then the integration and the prints
ThreadsJoin ==
  /\ ~killed
  /\ tpc = "join"
  /\ opc = "ended"
  /\ epc = "ended"
  /\ LET cpu_mWs == trapz(cpu_power, sample_times)
         gpu_mWs == trapz(gpu_power, sample_times)
         ane_mWs == trapz(ane_power, sample_times)
     IN  IF cpu_mWs.err
           THEN tpc' = "raised" /\ printed' = printed
         ELSE IF gpu_mWs.err
           THEN tpc' = "raised" /\ printed' = printed
         ELSE IF ane_mWs.err
           THEN tpc' = "raised" /\ printed' = printed
         ELSE /\ tpc' = "done"
              /\ printed' = <<cpu_mWs.v, gpu_mWs.v, ane_mWs.v>>
  /\ UNCHANGED <<envVars, procVars, opc, epc, process, stdout_pipe,
                 stderr_pipe, decoded_line, ok, killed, sample_times,
                 cpu_power, gpu_power, ane_power, nOut, nErr, stdoutLog>>

\* ----------------------------------------- threaded capture: stdout thread
\* line 26: readline() returns the next line of standard output
StdoutRead ==
  /\ ~killed
  /\ opc = "read"
  /\ stdout_pipe # <<>>
  /\ decoded_line' = Head(stdout_pipe)
  /\ stdout_pipe' = Tail(stdout_pipe)
  /\ stdoutLog' = Append(stdoutLog, Head(stdout_pipe))
  /\ opc' = "set_ok"
  /\ UNCHANGED <<envVars, procVars, tpc, epc, process, stderr_pipe, ok,
                 killed, sample_times, cpu_power, gpu_power, ane_power,
                 printed, nOut, nErr>>

\* line 26: readline() returns b'' at the end of standard output
StdoutEOF ==
  /\ ~killed
  /\ opc = "read"
  /\ stdout_pipe = <<>>
  /\ process = "exited"
  /\ opc' = "ended"
  /\ UNCHANGED <<envVars, procVars, tpc, epc, process, stdout_pipe,
                 stderr_pipe, decoded_line, ok, killed, sample_times,
                 cpu_power, gpu_power, ane_power, printed, nOut, nErr,
                 stdoutLog>>

\* line 27: self.ok = True, whatever the line is
SetsOk(l) == TRUE

StdoutSetOk ==
  /\ ~killed
  /\ opc = "set_ok"
  /\ ok' = (ok \/ SetsOk(decoded_line))
  /\ opc' = "parse"
  /\ UNCHANGED <<envVars, procVars, tpc, epc, process, stdout_pipe,
                 stderr_pipe, decoded_line, killed, sample_times, cpu_power,
                 gpu_power, ane_power, printed, nOut, nErr, stdoutLog>>

\* lines 28-42: the value of a boundary or of a power line is appended to
\* its series
StdoutParse ==
  /\ ~killed
  /\ opc = "parse"
  /\ LET st == ParseLine([EmptySeries EXCEPT !.times = sample_times,
                                             !.cpu = cpu_power,
                                             !.gpu = gpu_power,
                                             !.ane = ane_power],
                         decoded_line)
     IN  /\ sample_times' = st.times
         /\ cpu_power' = st.cpu
         /\ gpu_power' = st.gpu
         /\ ane_power' = st.ane
  /\ opc' = "read"
  /\ UNCHANGED <<envVars, procVars, tpc, epc, process, stdout_pipe,
                 stderr_pipe, decoded_line, ok, killed, printed, nOut, nErr,
                 stdoutLog>>

\* ----------------------------------------- threaded capture: stderr thread
\* lines 45-48: readline() returns a line of standard error, which is
\* printed
StderrRead ==
  /\ ~killed
  /\ epc = "read"
  /\ stderr_pipe > 0
  /\ stderr_pipe' = stderr_pipe - 1
  /\ epc' = "test"
  /\ UNCHANGED <<envVars, procVars, tpc, opc, process, stdout_pipe,
                 decoded_line, ok, killed, sample_times, cpu_power, gpu_power,
                 ane_power, printed, nOut, nErr, stdoutLog>>

\* line 45: readline() returns b'' at the end of standard error
StderrEOF ==
  /\ ~killed
  /\ epc = "read"
  /\ stderr_pipe = 0
  /\ process = "exited"
  /\ epc' = "ended"
  /\ UNCHANGED <<envVars, procVars, tpc, opc, process, stdout_pipe,
                 stderr_pipe, decoded_line, ok, killed, sample_times,
                 cpu_power, gpu_power, ane_power, printed, nOut, nErr,
                 stdoutLog>>

\* lines 49-50: if not self.ok: os.kill(self.pid, signal.SIGKILL)
StderrTest ==
  /\ ~killed
  /\ epc = "test"
  /\ killed' = ~ok
  /\ epc' = "read"
  /\ UNCHANGED <<envVars, procVars, tpc, opc, process, stdout_pipe,
                 stderr_pipe, decoded_line, ok, sample_times, cpu_power,
                 gpu_power, ane_power, printed, nOut, nErr, stdoutLog>>

InitThreads == Init /\ isRoot /\ hasTool

NextThreads ==
  \/ \E l \in SamplerLines(1) : ProcessWritesStdout(l)
  \/ ProcessWritesStderr
  \/ ProcessExits
  \/ ThreadsEnter
  \/ ThreadsTerminate
  \/ ThreadsWait
  \/ ThreadsJoin
  \/ StdoutRead
  \/ StdoutEOF
  \/ StdoutSetOk
  \/ StdoutParse
  \/ StderrRead
  \/ StderrEOF
  \/ StderrTest

SpecThreads == InitThreads /\ [][NextThreads]_vars

\* ------------------------------------------------- what the claims speak of
\* a line starting with "ANE Power" is among log's lines
AneRead(log) == \E i \in 1..Len(log) : startswith(log[i], "ANE")

\* the place in log of the first line starting with "ANE Power"
FirstAne(log) ==
  CHOOSE i \in 1..Len(log) :
    /\ startswith(log[i], "ANE")
    /\ \A j \in 1..(i - 1) : ~startswith(log[j], "ANE")

IsKept(line) == line.kind \in {"Boundary", "CPU", "GPU", "ANE"}
IsSamplerRecord(r) == r # ErrorRecord

\* the kept lines of log from the first "ANE Power" line on, that line included
KeptFromTrigger(log) ==
  IF AneRead(log)
    THEN SelectSeq(SubSeq(log, FirstAne(log), Len(log)), IsKept)
    ELSE <<>>

\* the kept lines of log after the first "ANE Power" line, that line excluded
KeptAfterTrigger(log) ==
  IF AneRead(log)
    THEN SelectSeq(SubSeq(log, FirstAne(log) + 1, Len(log)), IsKept)
    ELSE <<>>

\* the session is in __exit__, at or before the drain
Releasing == spc \in {"exit_recv", "exit_join", "exit_drain"}

\* ---------------------------------------------------------------- claims
\* C1: while no line starting with "ANE Power" has been read, no sampler
\* line has been put on data_queue, whatever was read before it and whenever
\* cancellation comes.
C1_NoPutBeforeFirstAne ==
  ~AneRead(readLog) => \A i \in 1..Len(putLog) : ~IsSamplerRecord(putLog[i])

\* C1 witness: a "CPU Power" line was read before the first "ANE Power" line
\* and, later, sampler lines were put.
C1_Witness ==
  /\ AneRead(readLog)
  /\ \E i \in 1..(FirstAne(readLog) - 1) : startswith(readLog[i], "CPU")
  /\ \E i \in 1..Len(putLog) : IsSamplerRecord(putLog[i])

\* C2 as stated: once the first "ANE Power" line is read the readiness event
\* is set and the sampler lines put are the kept lines read from that line
\* on, the triggering line included.
C2_TriggerLineIncluded ==
  AneRead(readLog) =>
    /\ ane_seen_event
    /\ SelectSeq(putLog, IsSamplerRecord) = KeptFromTrigger(readLog)

\* C2 amended: the readiness event is set exactly when the first "ANE Power"
\* line has been read, and the records put are the kept lines read after the
\* triggering line (that line excluded), in the order read, followed at most
\* by the error sentinel; a discarded line is never among them.
C2_KeptLinesAfterTrigger ==
  /\ ane_seen_event <=> AneRead(readLog)
  /\ \/ putLog = KeptAfterTrigger(readLog)
     \/ putLog = Append(KeptAfterTrigger(readLog), ErrorRecord)

\* C2 witness: readiness is set, a discarded line was read after the trigger
\* and two kept lines have been put.
C2_Witness ==
  /\ ane_seen_event
  /\ \E i \in (FirstAne(readLog) + 1)..Len(readLog) : ~IsKept(readLog[i])
  /\ Len(putLog) >= 2
  /\ \A i \in 1..Len(putLog) : IsSamplerRecord(putLog[i])

\* C3: the session has taken no record off data_queue unless it has received
\* the worker's acknowledgment.
C3_NoDrainBeforeAck == collected_data # <<>> => ackReceived

\* C3 witness: the session has taken a record off data_queue while the
\* drain is still going on.
C3_Witness == spc = "exit_drain" /\ collected_data # <<>> /\ qpipe # <<>>

\* C4: the worker sends at most one acknowledgment, and no step taken once it
\* has been sent puts a record on data_queue.
C4_OneAckThenNoPut ==
  [][ackSent' <= 1 /\ (ackSent >= 1 => putLog' = putLog)]_vars

\* C4 witness: the acknowledgment was sent on the read-error path, after
\* sampler lines and the sentinel were put.
C4_Witness ==
  /\ ackSent = 1
  /\ Len(putLog) >= 2
  /\ putLog[Len(putLog)] = ErrorRecord

\* C5 as stated, in the form a finite run refutes: once cancellation is set,
\* a worker still in its read loop can go on without a further line from the
\* sampler (the read attempt does not keep it from observing cancellation).
C5_CancelNotBlockedByRead ==
  (termination_event /\ wpc \in {"loop", "read"}) =>
    ENABLED (WorkerLoop \/ WorkerReadEOF)

\* C6 as stated, in the form a finite run refutes: a release that has not
\* finished its drain is never stuck, so that it can reach Done.
C6_ReleaseNeverStuck == Releasing => ENABLED Next

\* C7: when the drain loop has ended, the records collected are the records
\* the worker put, in the order put, none lost and none twice.
C7_DrainCollectsAllPut == finished => collected_data = putLog

\* C7 witness: the drain has ended with several records collected.
C7_Witness == finished /\ Len(collected_data) >= 2

\* C8 as stated, in the form a finite run refutes: after a read error during
\* capture the release is never stuck and never raises, and it ends Done with
\* the energies of the records put before the sentinel.
C8_ErrorStillFinalizes ==
  (termination_event /\ \E i \in 1..Len(putLog) : putLog[i] = ErrorRecord) =>
    /\ Releasing => ENABLED Next
    /\ spc # "raised"
    /\ spc = "done" =>
         LET e == ComputeEnergy(Parse(SelectSeq(putLog, IsSamplerRecord)))
         IN  /\ cpu_energy_J = e.cpu
             /\ gpu_energy_J = e.gpu
             /\ ane_energy_J = e.ane

\* Lemma for C9 (cancellation before any "ANE Power" line is read): the
\* session sets the cancellation event only after __enter__ has returned, so
\* at least one "ANE Power" line has been read whenever it is set.
CancelOnlyAfterAneRead == termination_event => AneRead(readLog)

\* C10 as stated: with the privilege or the executable missing, acquisition
\* has failed or not begun, and neither the worker process nor the sampler
\* was spawned.
C10_FailedPreconditionSpawnsNothing ==
  (~isRoot \/ ~hasTool) =>
    /\ wpc = "none"
    /\ sampler = "none"
    /\ spc \in {"init", "raised"}

\* a drained sample-boundary line whose timestamp cannot be parsed
HasBadTimestamp(lines) ==
  \E i \in 1..Len(lines) : startswith(lines[i], "Boundary") /\ Unparseable(lines[i])

\* C11 as stated: when a drained boundary line carries an unparseable
\* timestamp and finalization has failed on it, finished is not true and the
\* summary does not present the energy fields as a result.
C11_ParseFailureNotAResult ==
  (spc = "raised" /\ HasBadTimestamp(collected_data)) =>
    /\ ~finished
    /\ __str__.summary # "energies"

\* C12 as stated: in every session state before Done, reading the energy
\* fields is reported as a violation, and the string summary does not give
\* energy values.
C12_ReadBeforeDoneReported ==
  spc # "done" =>
    /\ EnergyFields.raises
    /\ __str__.summary # "energies"

\* __enter__ has returned to the caller
Acquired ==
  \/ spc \in {"capturing", "exit_recv", "exit_join", "exit_drain", "done"}
  \/ spc = "raised" /\ finished

\* C13: whenever __enter__ has returned the readiness event is set; the
\* event changes only from clear to set (so at most once, and it is never
\* cleared), and only in the worker's step that reads the first line starting
\* with "ANE Power".
C13_ReadySetOnceByWorker ==
  /\ [](Acquired => ane_seen_event)
  /\ [][ane_seen_event' # ane_seen_event =>
          /\ ~ane_seen_event
          /\ ane_seen_event'
          /\ ~AneRead(readLog)
          /\ Len(readLog') = Len(readLog) + 1
          /\ startswith(readLog'[Len(readLog')], "ANE")]_vars

\* C13 witness: __enter__ has returned after the worker read kept lines
\* before the first "ANE Power" line.
C13_Witness ==
  /\ spc = "capturing"
  /\ ane_seen_event
  /\ FirstAne(readLog) > 1
  /\ IsKept(readLog[1])

\* The samples the drained lines stand for when read cycle by cycle: a
\* boundary opens a sample, the readings up to the next boundary fill it, a
\* rail without a reading counts as 0, and a boundary followed by no reading
\* gives no sample.
NoSample == [open |-> FALSE, t |-> 0, CPU |-> 0, GPU |-> 0, ANE |-> 0, has |-> {}]
OpenSample(t) == [NoSample EXCEPT !.open = TRUE, !.t = t]
CloseSample(acc, out) == IF acc.open /\ acc.has # {} THEN Append(out, acc) ELSE out

RECURSIVE SamplesFrom(_, _, _)
SamplesFrom(lines, acc, out) ==
  IF lines = <<>> THEN CloseSample(acc, out)
  ELSE LET l == Head(lines)
       IN  IF l.kind = "Boundary"
             THEN SamplesFrom(Tail(lines), OpenSample(l.val), CloseSample(acc, out))
           ELSE IF l.kind \in {"CPU", "GPU", "ANE"} /\ acc.open
             THEN SamplesFrom(Tail(lines),
                              [acc EXCEPT ![l.kind] = l.val, !.has = @ \cup {l.kind}],
                              out)
           ELSE SamplesFrom(Tail(lines), acc, out)

Samples(lines) == SamplesFrom(lines, NoSample, <<>>)

\* the four series of a sequence of samples
SeriesOf(samples) ==
  [times |-> [i \in 1..Len(samples) |-> samples[i].t],
   cpu |-> [i \in 1..Len(samples) |-> samples[i].CPU],
   gpu |-> [i \in 1..Len(samples) |-> samples[i].GPU],
   ane |-> [i \in 1..Len(samples) |-> samples[i].ANE],
   err |-> FALSE]

\* the sampler lines among lines come cycle by cycle: a boundary first, and
\* after each boundary at most one reading per rail, in the order CPU, GPU, ANE
RailRank(k) == IF k = "CPU" THEN 1 ELSE IF k = "GPU" THEN 2 ELSE 3
InCycles(lines) ==
  LET ls == SelectSeq(lines, IsSamplerRecord)
  IN  \A i \in 1..Len(ls) :
        ls[i].kind # "Boundary" =>
          /\ i > 1
          /\ \/ ls[i - 1].kind = "Boundary"
             \/ RailRank(ls[i - 1].kind) < RailRank(ls[i].kind)

\* C14 as stated: when some sample of the drained lines has readings for only
\* some rails, finalization completes with a result, and the result is the
\* one of the samples with the missing readings counted as 0.
C14_MissingRailCountsAsZero ==
  (/\ finished
   /\ ~HasBadTimestamp(collected_data)
   /\ InCycles(collected_data)
   /\ \E i \in 1..Len(Samples(collected_data)) :
        Samples(collected_data)[i].has # {"CPU", "GPU", "ANE"}) =>
    /\ spc = "done"
    /\ LET e == ComputeEnergy(SeriesOf(Samples(collected_data)))
       IN  /\ cpu_energy_J = e.cpu
           /\ gpu_energy_J = e.gpu
           /\ ane_energy_J = e.ane

\* C15 as stated: after parsing, the recorded timestamps are, in input
\* order, those of the boundary lines that were followed by at least one
\* power line before the next boundary; a boundary followed by none gives
\* no sample.
C15_OneSamplePerFilledBoundary ==
  (finished /\ ~HasBadTimestamp(collected_data)) =>
    LET samples == Samples(collected_data)
    IN  /\ Len(sample_times_s) = Len(samples)
        /\ \A i \in 1..Len(samples) : sample_times_s[i] = samples[i].t

\* the trapezoid rule written out: the sum over consecutive samples of
\* (p[i] + p[i+1]) * (t[i+1] - t[i]), in units of 0.5 mJ
RECURSIVE TrapezoidSum(_, _, _)
TrapezoidSum(p, t, i) ==
  IF i >= Len(t) THEN 0
  ELSE (p[i] + p[i + 1]) * (t[i + 1] - t[i]) + TrapezoidSum(p, t, i + 1)

\* the four series hold one element per sample
Aligned ==
  /\ Len(cpu_power_mW) = Len(sample_times_s)
  /\ Len(gpu_power_mW) = Len(sample_times_s)
  /\ Len(ane_power_mW) = Len(sample_times_s)

\* C16: once finalization has run on series of one shared length, it has
\* completed and each rail's energy is the trapezoid sum of that rail's
\* readings over the shared timestamps (times 1e-3, here in units of 0.5 mJ);
\* with 0 or 1 samples every energy is 0.
C16_EnergyIsTrapezoidSum ==
  (finished /\ ~HasBadTimestamp(collected_data) /\ Aligned) =>
    /\ spc = "done"
    /\ cpu_energy_J = TrapezoidSum(cpu_power_mW, sample_times_s, 1)
    /\ gpu_energy_J = TrapezoidSum(gpu_power_mW, sample_times_s, 1)
    /\ ane_energy_J = TrapezoidSum(ane_power_mW, sample_times_s, 1)
    /\ Len(sample_times_s) <= 1 =>
         cpu_energy_J = 0 /\ gpu_energy_J = 0 /\ ane_energy_J = 0

\* C16 witness: finalization has completed on two samples a time interval
\* apart, with different CPU readings and different energies per rail.
C16_Witness ==
  /\ spc = "done"
  /\ Aligned
  /\ Len(sample_times_s) = 2
  /\ sample_times_s[2] > sample_times_s[1]
  /\ cpu_power_mW[1] # cpu_power_mW[2]
  /\ cpu_energy_J # gpu_energy_J
  /\ gpu_energy_J # 0

\* a reading of the threaded capture's series has been recorded
SampleRecorded ==
  Len(sample_times) + Len(cpu_power) + Len(gpu_power) + Len(ane_power) > 0

\* the stdout thread has read a boundary or a power line
SampleLineRead == \E i \in 1..Len(stdoutLog) : IsKept(stdoutLog[i])

\* C17: whenever the stderr thread has tested a line of standard error, the
\* supervising process is killed if and only if no sample has been observed
\* on standard output: a kill only when no reading has been recorded, and
\* no kill only when a boundary or power line has been read.
C17_StderrFatalIffNoSample ==
  [][(epc = "test" /\ epc' = "read") =>
       /\ killed' => ~SampleRecorded
       /\ ~killed' => SampleLineRead]_vars

\* the lines of log are reporting cycles, each a boundary, a CPU, a GPU and
\* an ANE reading in this order, the last cycle possibly cut short
CycleKind(i) == <<"Boundary", "CPU", "GPU", "ANE">>[((i - 1) % 4) + 1]
WellFormedCycles(log) == \A i \in 1..Len(log) : log[i].kind = CycleKind(i)

\* C18 as stated: when the sampler's output was well-formed reporting cycles,
\* wherever the cancellation cut it, the four series __exit__ has built have
\* one length.
C18_SeriesOfEqualLength ==
  (finished /\ WellFormedCycles(readLog)) =>
    /\ Len(cpu_power_mW) = Len(sample_times_s)
    /\ Len(gpu_power_mW) = Len(sample_times_s)
    /\ Len(ane_power_mW) = Len(sample_times_s)

\* C19 as stated: with the sampler started, while __enter__ waits for the
\* readiness event the program is never at a dead end: some step of the
\* worker, of the sampler or of the session is possible, so a wait that no
\* ANE line will end is ended another way.
C19_AcquisitionNeverStuck ==
  (hasTool /\ spc = "enter_wait" /\ ~ane_seen_event) => ENABLED Next

\* C20: once the worker is about to send the acknowledgment, has sent it, or
\* the session has received it, the sampler has been waited for and has
\* exited, whether the worker left its loop on cancellation or on a read
\* error.
C20_AckOnlyAfterSamplerExit ==
  (wpc = "send" \/ ackSent >= 1 \/ ackReceived) => sampler = "exited"

\* C20 witness: the session has received the acknowledgment of a worker that
\* left its loop on a read error while the sampler was still running.
C20_Witness ==
  /\ ackReceived
  /\ sampler = "exited"
  /\ \E i \in 1..Len(putLog) : putLog[i] = ErrorRecord

====
